---- MODULE Spec2Model ----
(***************************************************************************)
(* GetPaper: the PubMed spider's crawl-and-collect pipeline                *)
(* (src/getpaper/spiders/PubMed.py) and the menu's bulk download           *)
(* (src/getpaper/GUI/menu.py).                                             *)
(*                                                                         *)
(* Identifiers are the naturals 1..avail: identifier k is the k-th hit in  *)
(* the provider's ordering.  Time is counted in units of GET_FREQUENCY.    *)
(* Spec explores whole runs of getAllPapers against a provider with few    *)
(* hits (so that the detail tasks can be interleaved in every order);      *)
(* SpecFetch explores the listing stage alone against a provider with      *)
(* several full pages of hits; SpecMenu explores the menu's download       *)
(* commands.                                                               *)
(***************************************************************************)
EXTENDS Integers, Sequences, FiniteSets, TLC

VARIABLES
    pc,         \* where the getAllPapers coroutine is
    avail,      \* number of hits the provider holds for the query
    num,        \* getAllPapers' num after max(num, 1)
    page,       \* self.data["page"]
    pmid_list,  \* getPMIDs' accumulator
    ret,        \* the list getPMIDs returned
    listexc,    \* the exception that left getPMIDs ("none": it returned)
    reqlog,     \* history: one record per listing request issued
    queue,      \* self.result_queue's heap content, smallest first
    maxsize,    \* self.result_queue.maxsize
    got,        \* what the consumer thread has taken with get(), in order
    tasks,      \* the getPagesInfo coroutines handed to gather
    running,    \* the task whose put() holds the loop's thread (0: none)
    now,        \* time since gather started the tasks
    reversed,   \* history: every put of a task so far came before the puts
                \* of all tasks of lower rank
    exc,        \* the exception that left getAllPapers ("none")
    session,    \* self.session
    capacity,   \* history: the maxsize the caller gave the result queue
    has_result, \* hasattr(main_frame, "result")
    result,     \* main_frame.result
    dl,         \* where the thread of downloadAll is
    tip,        \* the last message handed to tip.setTip
    batch,      \* the details handed to the download worker
    mq_size,    \* maxsize of the monitor_queue handed to the worker
    mq,         \* content of that monitor_queue
    published,  \* number of items the worker has published
    seen,       \* number of outcomes the monitor has taken
    dois,       \* downloadByDoiFile: the lines read from the chosen file
    details,    \* downloadByDoiFile: the list of details it built
    by_file,     \* history: downloadByDoiFile made the last call of downloadAll
    args,       \* the arguments parseData was called with
    data,       \* the payload parseData returned
    total       \* how getTotalPaperNum ended, and on what page

spider == <<pc, avail, num, page, pmid_list, ret, listexc, reqlog, queue,
            maxsize, got, tasks, running, now, reversed, exc, session,
            capacity>>

menu == <<has_result, result, dl, tip, batch, mq_size, mq, published, seen,
          dois, details, by_file>>

\* The query stage: the arguments of parseData, the payload it built, and
\* what getTotalPaperNum made of the results page.
query == <<args, data, total>>

vars == <<spider, menu, query>>

listing == <<page, pmid_list, ret, listexc, reqlog>>

----------------------------------------------------------------------------
\* Bounds of the model.

\* Spec: the provider holds at most MaxAvail hits, so at most MaxAvail tasks.
MaxAvail == 3
\* Spec: requested counts 0..MaxNum, and one count that needs a second page.
MaxNum == 3
\* SpecFetch: requested counts and hit counts reach MaxPages full pages.
MaxPages == 2
\* SpecMenu: a search result or a file holds at most MaxItems entries.
MaxItems == 2

\* "size": "200" and the 200 of the loop condition.
PageSize == 200

Min(a, b) == IF a < b THEN a ELSE b
Max(a, b) == IF a > b THEN a ELSE b

\* s[:n]
Take(s, n) == SubSeq(s, 1, Min(n, Len(s)))

----------------------------------------------------------------------------
\* The provider (environment): honest pagination over avail hits.

\* Number of identifiers on listing page p.
PageLen(p) == Min(PageSize, Max(0, avail - (p - 1) * PageSize))

\* tag.text.split() of listing page p, when it has a block.
PageIds(p) == [k \in 1..PageLen(p) |-> (p - 1) * PageSize + k]

\* What a listing request for page p can come to: a page with the block of
\* its identifiers, a page past the last hit (with an empty block or with no
\* block), a timeout, or another exception of the transport.
Responses(p) ==
    {"timeout", "error"} \cup
        (IF PageLen(p) > 0 THEN {"block"} ELSE {"emptyblock", "noblock"})

----------------------------------------------------------------------------
\* queue.PriorityQueue

\* put() returns at once iff the queue is not full; maxsize <= 0 is unbounded.
CanPut(q, m) == m <= 0 \/ Len(q) < m

\* heappush keeps the smallest index first.  Two entries of one index never
\* meet in the heap: the "Not found any papers" entry comes with maxsize 1,
\* so the put of a task waits until that entry has been taken.
HeapPush(q, e) ==
    LET lo == SelectSeq(q, LAMBDA x : x.idx <= e.idx)
        hi == SelectSeq(q, LAMBDA x : x.idx > e.idx)
    IN  lo \o <<e>> \o hi

Indices(q) == [k \in 1..Len(q) |-> q[k].idx]

\* ["Not found any papers"] * 7 at index 0
NotFoundEntryOnce == [idx |-> 0, rec |-> <<"Not found any papers">>]

NotFoundEntry == [idx |-> 0, rec |-> [k \in 1..7 |-> "Not found any papers"]]

----------------------------------------------------------------------------
\* getPMIDs

\* Last page the loop asks for: (num - 1) // 200 + 1
LastPageOff(n) == n \div PageSize + 1

LastPage(n) == (n - 1) \div PageSize + 1

\* "finally: return pmid_list[:num]" ends getPMIDs with a return whatever
\* exception was on its way out: nothing leaves getPMIDs.
FinallyReturnPropagates(pending) == pending

FinallyReturn(pending) == "none"

\* The break of line 99.
StopsAfter(ids) == Len(ids) = 1

\* The spider after __init__ (lines 19-22), facing a provider that holds
\* one of Avails hits.
SpiderInit(Avails) ==
    /\ pc = "idle"
    /\ avail \in Avails
    /\ num = 0
    /\ page = 0
    /\ pmid_list = <<>>
    /\ ret = <<>>
    /\ listexc = "none"
    /\ reqlog = <<>>
    /\ queue = <<>>
    /\ maxsize = 0
    /\ got = <<>>
    /\ tasks = <<>>
    /\ running = 0
    /\ now = 0
    /\ reversed = TRUE
    /\ exc = "none"
    /\ session = "None"
    /\ capacity = 0

\* getAllPapers up to the first listing request: the caller hands over an
\* empty PriorityQueue(cap); lines 156-160 and 78-81.
Call(Nums) ==
    /\ pc = "idle"
    /\ \E n \in Nums :
        \E cap \in {0, 1, Max(n, 1)} :
            /\ num' = Max(n, 1)
            /\ maxsize' = cap
            /\ capacity' = cap
    /\ queue' = <<>>
    /\ session' = IF session \in {"None", "deleted"} THEN "open" ELSE session
    /\ pmid_list' = <<>>
    /\ page' = 1
    /\ pc' = "pmids"
    /\ UNCHANGED <<avail, ret, listexc, reqlog, got, tasks, running, now, exc, reversed>>
    /\ UNCHANGED <<menu, query>>

\* getPMIDs leaves through its finally clause.
Leave(list, pending) ==
    /\ ret' = Take(list, num)
    /\ listexc' = FinallyReturn(pending)
    /\ pc' = "listed"

\* One turn of the while loop of getPMIDs, lines 84-109.
ListingPage ==
    /\ pc = "pmids"
    /\ page <= LastPage(num)
    /\ \E resp \in Responses(page) :
        /\ reqlog' = Append(reqlog, [page |-> page, resp |-> resp,
                                     len |-> IF resp = "block" THEN PageLen(page) ELSE 0])
        /\ CASE resp = "timeout" ->
                  /\ Leave(pmid_list, "TipException:Timeout")
                  /\ UNCHANGED <<page, pmid_list, queue, maxsize>>
             [] resp = "error" ->
                  /\ Leave(pmid_list, "none")
                  /\ UNCHANGED <<page, pmid_list, queue, maxsize>>
             [] resp = "noblock" ->
                  /\ CanPut(queue, 1)
                  /\ maxsize' = 1
                  /\ queue' = HeapPush(queue, NotFoundEntry)
                  \* TipException("未找到相关文献") is caught by "except Exception"
                  /\ Leave(pmid_list, "none")
                  /\ UNCHANGED <<page, pmid_list>>
             [] OTHER ->
                  LET ids == PageIds(page)
                      list == pmid_list \o ids
                  IN  /\ pmid_list' = list
                      /\ IF StopsAfter(ids)
                         THEN Leave(list, "none") /\ UNCHANGED page
                         ELSE page' = page + 1 /\ UNCHANGED <<ret, listexc, pc>>
                      /\ UNCHANGED <<queue, maxsize>>
    /\ UNCHANGED <<avail, capacity, num, got, tasks, running, now, exc, session, reversed>>
    /\ UNCHANGED <<menu, query>>

\* The loop condition fails: the try block ends, finally returns.
ListingExit ==
    /\ pc = "pmids"
    /\ page > LastPage(num)
    /\ Leave(pmid_list, "none")
    /\ UNCHANGED <<avail, capacity, num, page, pmid_list, reqlog, queue, maxsize, got,
                   tasks, running, now, exc, session, reversed>>
    /\ UNCHANGED <<menu, query>>

----------------------------------------------------------------------------
\* getPagesInfo

Fields == {"title", "date", "publication", "authors", "abstract", "doi", "links"}

\* Which of the parsed elements a detail page may hold.
PresentSets == {Fields, {}, Fields \ {"links"}}

\* What the request of a task can come to: an exception (raised), or a
\* detail page: whether it has <main class="article-details">, which
\* elements that container holds, and whether the full-text-links-list
\* holds an <a>.
RequestRaised == [raised |-> TRUE, container |-> FALSE, present |-> {}, anchor |-> FALSE]

DetailPages ==
    {[raised |-> FALSE, container |-> FALSE, present |-> {}, anchor |-> FALSE]} \cup
    {pg \in [raised : {FALSE}, container : {TRUE}, present : PresentSets,
             anchor : BOOLEAN] : "links" \in pg.present \/ ~pg.anchor}

DetailOutcomes == {RequestRaised} \cup DetailPages

\* asyncio.sleep(index * GET_FREQUENCY), in units of GET_FREQUENCY.
SleepNone(index) == 0

SleepTicks(index) == index

\* Lines 118-120 with the web of line 112: the record of a failed request.
ErrorRecord == [k \in 1..7 |-> IF k <= 6 THEN "Error" ELSE "base_url+pmid"]

\* Lines 122-149 on a page that has the container.
ParsedRecord(p) ==
    << IF "title" \in p.present THEN "<title>" ELSE "No Title",
       IF "authors" \in p.present THEN "<authors>" ELSE "",
       IF "date" \in p.present THEN "<date>" ELSE "No date",
       IF "publication" \in p.present THEN "<publication>" ELSE "No publication",
       IF "abstract" \in p.present THEN "<abstract>" ELSE "No Abstract",
       IF "doi" \in p.present THEN "<doi>" ELSE "",
       IF "links" \in p.present /\ p.anchor THEN "<href>" ELSE "base_url+pmid" >>

\* The try statement of lines 115-152 on outcome out: whether the finally
\* clause puts an entry, the record it puts, and the exception that leaves
\* the coroutine.
\*   request raised: caught, the record of line 120, put.
\*   no container: content is None, content.find raises in the else clause
\*     before title is bound; the put of the finally clause then raises
\*     UnboundLocalError on title: nothing is put.
\*   links list without <a>: tag.a['href'] raises TypeError after every
\*     name is bound; the finally clause puts, then the TypeError goes on.
FetchUncaught(out) ==
    IF out.raised
    THEN [emit |-> FALSE, rec |-> <<>>, err |-> "ClientError"]
    ELSE IF ~out.container
    THEN [emit |-> FALSE, rec |-> <<>>, err |-> "UnboundLocalError"]
    ELSE [emit |-> TRUE, rec |-> ParsedRecord(out),
          err |-> IF "links" \in out.present /\ ~out.anchor
                  THEN "TypeError" ELSE "none"]

Fetch(out) ==
    IF out.raised
    THEN [emit |-> TRUE, rec |-> ErrorRecord, err |-> "none"]
    ELSE IF ~out.container
    THEN [emit |-> FALSE, rec |-> <<>>, err |-> "UnboundLocalError"]
    ELSE [emit |-> TRUE, rec |-> ParsedRecord(out),
          err |-> IF "links" \in out.present /\ ~out.anchor
                  THEN "TypeError" ELSE "none"]

NewTask == [pc |-> "sleep", out |-> RequestRaised, emit |-> FALSE, rec |-> <<>>, err |-> "none"]

\* Lines 162-166 once getPMIDs is over: an exception of getPMIDs leaves
\* getAllPapers; else one coroutine per identifier, all handed to gather.
AfterPMIDs ==
    /\ pc = "listed"
    /\ IF listexc = "none"
       THEN /\ tasks' = [i \in 1..Len(ret) |-> NewTask]
            /\ pc' = "gather"
            /\ exc' = exc
       ELSE /\ tasks' = tasks
            /\ pc' = "raised"
            /\ exc' = listexc
    /\ now' = 0
    /\ UNCHANGED <<avail, capacity, num, listing, queue, maxsize, got, running, session, reversed>>
    /\ UNCHANGED <<menu, query>>

\* Time passes; past the last task's delay it no longer matters.
Tick ==
    /\ pc = "gather"
    /\ now < SleepTicks(Len(tasks) - 1)
    /\ now' = now + 1
    /\ UNCHANGED <<pc, avail, capacity, num, listing, queue, maxsize, got, tasks,
                   running, exc, session, reversed>>
    /\ UNCHANGED <<menu, query>>

\* The loop runs a coroutine only while no put() blocks its thread.
LoopFree == pc = "gather" /\ running = 0

\* The sleep of line 113 is over: the task issues its request (line 116).
WakeTurnsPage(i) ==
    /\ LoopFree
    /\ tasks[i].pc = "sleep"
    /\ now >= SleepTicks(i - 1)
    /\ tasks' = [tasks EXCEPT ![i].pc = "request"]
    /\ page' = page + 1
    /\ UNCHANGED <<pc, avail, capacity, num, pmid_list, ret, listexc, reqlog, queue,
                   maxsize, got, running, now, exc, session, reversed>>
    /\ UNCHANGED <<menu, query>>

Wake(i) ==
    /\ LoopFree
    /\ tasks[i].pc = "sleep"
    /\ now >= SleepTicks(i - 1)
    /\ tasks' = [tasks EXCEPT ![i].pc = "request"]
    /\ UNCHANGED <<pc, avail, capacity, num, listing, queue, maxsize, got, running,
                   now, exc, session, reversed>>
    /\ UNCHANGED <<menu, query>>

\* The request of task i ends: lines 116-150, up to the put of the finally
\* clause, which the task enters holding the loop's thread.
Respond(i) ==
    /\ LoopFree
    /\ tasks[i].pc = "request"
    /\ \E out \in DetailOutcomes :
        LET f == Fetch(out)
        IN  /\ tasks' = [tasks EXCEPT ![i] =
                            [pc |-> IF f.emit THEN "put" ELSE "failed",
                             out |-> out, emit |-> f.emit, rec |-> f.rec,
                             err |-> f.err]]
            /\ running' = IF f.emit THEN i ELSE 0
    /\ UNCHANGED <<pc, avail, capacity, num, listing, queue, maxsize, got, now, exc,
                   session, reversed>>
    /\ UNCHANGED <<menu, query>>

\* Task j has made its put.
HasPut(j) == tasks[j].emit /\ tasks[j].pc \in {"done", "failed"}

\* The key an entry is put under: the task's rank.
PutKeyCompletion(i) == Len(queue) + Len(got)

PutKey(i) == i - 1

\* Lines 151-152: put() returns once the queue has room; then the coroutine
\* ends, with the exception of the else clause if there was one.
PutEntry(i) ==
    /\ pc = "gather"
    /\ running = i
    /\ tasks[i].pc = "put"
    /\ CanPut(queue, maxsize)
    /\ queue' = HeapPush(queue, [idx |-> PutKey(i), rec |-> tasks[i].rec])
    /\ tasks' = [tasks EXCEPT ![i].pc =
                    IF tasks[i].err = "none" THEN "done" ELSE "failed"]
    /\ running' = 0
    /\ reversed' = (reversed /\ \A j \in 1..Len(tasks) :
                        j # i => (HasPut(j) <=> j > i))
    /\ UNCHANGED <<pc, avail, capacity, num, listing, maxsize, got, now, exc, session>>
    /\ UNCHANGED <<menu, query>>

AllDone == \A i \in 1..Len(tasks) : tasks[i].pc = "done"

\* gather returns; lines 168-172 close the session and delete the attribute.
GatherReturn ==
    /\ LoopFree
    /\ AllDone
    /\ pc' = "returned"
    /\ session' = "deleted"
    /\ UNCHANGED <<avail, capacity, num, listing, queue, maxsize, got, tasks, running,
                   now, exc, reversed>>
    /\ UNCHANGED <<menu, query>>

\* gather raises the exception of a failed task into getAllPapers, which
\* does not catch it: lines 168-172 are not reached, and the loop stops
\* running the other tasks.
GatherRaise ==
    /\ LoopFree
    /\ \E i \in 1..Len(tasks) :
        /\ tasks[i].pc = "failed"
        /\ exc' = tasks[i].err
    /\ pc' = "raised"
    /\ UNCHANGED <<avail, capacity, num, listing, queue, maxsize, got, tasks, running,
                   now, session, reversed>>
    /\ UNCHANGED <<menu, query>>

\* The consumer thread: result_queue.get() takes the smallest entry.
Get ==
    /\ queue # <<>>
    /\ got' = Append(got, Head(queue))
    /\ queue' = Tail(queue)
    /\ UNCHANGED <<pc, avail, capacity, num, listing, maxsize, tasks, running, now,
                   exc, session, reversed>>
    /\ UNCHANGED <<menu, query>>

----------------------------------------------------------------------------
\* getpaper/GUI/menu.py.  A text is a sequence of tokens: "10." is the
\* three characters every DOI starts with, " " and "\n" are whitespace.
\* A detail is [title |-> detail[0], doi |-> detail[-2]].

White == {" ", "\n"}

RECURSIVE LStrip(_)
LStrip(t) == IF t # <<>> /\ Head(t) \in White THEN LStrip(Tail(t)) ELSE t

RECURSIVE RStrip(_)
RStrip(t) ==
    IF t # <<>> /\ t[Len(t)] \in White THEN RStrip(SubSeq(t, 1, Len(t) - 1)) ELSE t

\* str.strip()
Strip(t) == RStrip(LStrip(t))

\* str.startswith("10.")
StartsWithMarker(t) == t # <<>> /\ Head(t) = "10."

\* The lines readlines() may give.
FileLines ==
    { <<"10.", "a", "\n">>, <<"10.", "b", " ", "\n">>,
      <<" ", "10.", "a", "\n">>, <<"a", "\n">> }

\* The files the user may choose: at most MaxLines lines.
MaxLines == 3

Files == UNION {[1..k -> FileLines] : k \in 0..MaxLines}

\* The k-th record of a search result.
Paper(k) == [title |-> <<"title", ToString(k)>>, doi |-> <<"10.", ToString(k)>>]

ResultLists == {[k \in 1..n |-> Paper(k)] : n \in 0..MaxItems}

\* Has: whether a search has set main_frame.result.
MenuInit(Has) ==
    /\ has_result \in Has
    /\ result \in IF has_result THEN ResultLists ELSE {<<>>}
    /\ dl = "idle"
    /\ tip = ""
    /\ batch = <<>>
    /\ mq_size = 0
    /\ mq = <<>>
    /\ published = 0
    /\ seen = 0
    /\ dois = <<>>
    /\ details = <<>>
    /\ by_file = FALSE

\* Queue(len(details)) of line 82.
MonitorQueueSizeOne(list) == 1

MonitorQueueSize(list) == Len(list)

\* downloadAll(details), lines 67-89, up to the call of monitor: dir is what
\* askdirectory returns.  The thread then sits in main_frame.monitor.
downloadAll(given, dir) ==
    /\ dl = "idle"
    /\ IF given = <<>> /\ ~has_result
       THEN /\ tip' = "no result"           \* "无搜索结果"
            /\ UNCHANGED <<dl, batch, mq_size, mq, published, seen>>
       ELSE LET d == IF given = <<>> THEN result ELSE given
            IN  IF dir = ""
                THEN UNCHANGED <<dl, tip, batch, mq_size, mq, published, seen>>
                ELSE /\ tip' = "preparing"      \* "准备下载中..."
                     /\ mq_size' = MonitorQueueSize(d)
                     /\ mq' = <<>>
                     /\ batch' = d
                     /\ published' = 0
                     /\ seen' = 0
                     /\ dl' = "monitor"
    /\ UNCHANGED <<has_result, result>>
    /\ UNCHANGED <<spider, query>>

Dirs == {"", "dir"}

\* The menu command "全部下载": downloadAll() without details.
DownloadAllCmd ==
    /\ \E dir \in Dirs : downloadAll(<<>>, dir)
    /\ by_file' = FALSE
    /\ dois' = <<>>
    /\ details' = <<>>

\* The details of lines 105-114 for the lines of a file.
RECURSIVE FileDetailsUnstripped(_)
FileDetailsUnstripped(lines) ==
    IF lines = <<>> THEN <<>>
    ELSE LET doi == Head(lines)
         IN  IF ~StartsWithMarker(doi)
             THEN FileDetailsUnstripped(Tail(lines))
             ELSE <<[title |-> doi, doi |-> Strip(doi)]>>
                      \o FileDetailsUnstripped(Tail(lines))

RECURSIVE FileDetails(_)
FileDetails(lines) ==
    IF lines = <<>> THEN <<>>
    ELSE LET doi == Head(lines)
         IN  IF ~StartsWithMarker(doi)
             THEN FileDetails(Tail(lines))
             ELSE <<[title |-> Strip(Strip(doi)), doi |-> Strip(Strip(doi))]>>
                      \o FileDetails(Tail(lines))

\* The menu command "通过DOI下载", lines 103-117, on the file the user chose
\* (no file chosen: nothing happens).
downloadByDoiFile ==
    \E file \in Files :
        /\ dois' = file
        /\ details' = FileDetails(file)
        /\ by_file' = TRUE
        /\ \E dir \in Dirs : downloadAll(details', dir)

\* SciHubDownloader.multiDownload on the worker thread: one outcome per
\* item of its batch, put on the monitor queue.
Publish ==
    /\ dl = "monitor"
    /\ published < Len(batch)
    /\ CanPut(mq, mq_size)
    /\ \E status \in {"Success", "Failure"} :
        mq' = Append(mq, [item |-> published + 1, status |-> status])
    /\ published' = published + 1
    /\ UNCHANGED <<has_result, result, dl, tip, batch, mq_size, seen>>
    /\ UNCHANGED <<dois, details, by_file>>
    /\ UNCHANGED <<spider, query>>

\* main_frame.monitor(monitor_queue, len(details)) takes one outcome.
Monitor ==
    /\ dl = "monitor"
    /\ mq # <<>>
    /\ mq' = Tail(mq)
    /\ seen' = seen + 1
    /\ UNCHANGED <<has_result, result, dl, tip, batch, mq_size, published>>
    /\ UNCHANGED <<dois, details, by_file>>
    /\ UNCHANGED <<spider, query>>

\* monitor has counted every item; the finally clause of lines 91-93.  The
\* handler is over: its batch and queue, and what downloadByDoiFile had read
\* and built, are gone.
MonitorReturn ==
    /\ dl = "monitor"
    /\ seen = Len(batch)
    /\ tip' = "download over"           \* "下载结束"
    /\ dl' = "idle"
    /\ dois' = <<>>
    /\ details' = <<>>
    /\ by_file' = FALSE
    /\ batch' = <<>>
    /\ mq_size' = 0
    /\ mq' = <<>>
    /\ published' = 0
    /\ seen' = 0
    /\ UNCHANGED <<has_result, result>>
    /\ UNCHANGED <<spider, query>>

----------------------------------------------------------------------------
\* PubMed.py, parseData and getTotalPaperNum; ACS.py, getTotalPaperNum.
\* A string is the sequence of its pieces; "" is <<>>.

\* The values a parameter of parseData may have.
Texts(word) == {<<>>, <<word>>}

\* The sorting choices of the GUI: "", relevance, relevance reversed, date,
\* date reversed (startswith / endswith look at the first and last piece).
Sortings == {<<>>, <<"match">>, <<"match", "reversed">>,
             <<"date">>, <<"date", "reversed">>}

Args ==
    [keyword : Texts("cancer"), start_year : Texts("2000"),
     end_year : Texts("2020"), author : Texts("smith"),
     journal : Texts("nature"), sorting : Sortings]

NoArgs ==
    [keyword |-> <<>>, start_year |-> <<>>, end_year |-> <<>>,
     author |-> <<>>, journal |-> <<>>, sorting |-> <<>>]

\* No payload yet.
NoData == [made |-> FALSE, term |-> <<>>, sort |-> "absent", sort_order |-> "absent"]

\* getTotalPaperNum has not run.
NoTotal == [provider |-> "none", page |-> "none", kind |-> "none", text |-> <<>>]

QueryInit(A) ==
    /\ args \in A
    /\ data = NoData
    /\ total = NoTotal

\* sep.join(clauses)
RECURSIVE Join(_, _)
Join(clauses, sep) ==
    IF clauses = <<>> THEN <<>>
    ELSE IF Len(clauses) = 1 THEN clauses[1]
    ELSE clauses[1] \o sep \o Join(Tail(clauses), sep)

\* Lines 33-43: the clauses of the term; the keyword clause is always there.
Term(a) ==
    <<a.keyword>>
    \o (IF a.start_year # <<>> /\ a.end_year # <<>>
        THEN <<a.start_year \o <<":">> \o a.end_year \o <<"[dp]">>>>
        ELSE <<>>)
    \o (IF a.author # <<>> THEN <<a.author \o <<"[author]">>>> ELSE <<>>)
    \o (IF a.journal # <<>> THEN <<a.journal \o <<"[journal]">>>> ELSE <<>>)

\* parseData(keyword, start_year, end_year, author, journal, sorting)
parseData ==
    /\ ~data.made
    /\ data' = [made |-> TRUE,
                term |-> Join(Term(args), <<" AND ">>),
                sort |-> IF args.sorting # <<>> /\ Head(args.sorting) = "date"
                         THEN "date" ELSE "absent",
                sort_order |-> IF args.sorting # <<>>
                                  /\ args.sorting[Len(args.sorting)] = "reversed"
                               THEN "asc" ELSE "absent"]
    /\ UNCHANGED <<args, total>>
    /\ UNCHANGED <<spider, menu>>

\* What the provider may answer to the summary request: no answer in time,
\* the single-result redirect page, a results page with its amount, a
\* results page without an amount (no match), a page of another shape.
Amounts == {<<"0">>, <<"1">>, <<"25">>, <<"1", ",", "234">>}

Pages ==
    {[shape |-> "timeout", amount |-> <<>>],
     [shape |-> "redirect", amount |-> <<>>],
     [shape |-> "noamount", amount |-> <<>>],
     [shape |-> "other", amount |-> <<>>]}
    \cup {[shape |-> "amount", amount |-> a] : a \in Amounts}

\* str.replace(",", "")
NoCommas(t) == SelectSeq(t, LAMBDA c : c # ",")

\* f"共找到{total_num}篇"
Found(total_num) == <<"found ">> \o total_num \o <<" papers">>

\* PubMed.py lines 52-72.
PubMedTotal(p) ==
    IF p.shape = "timeout" THEN [kind |-> "TipException", text |-> <<"timeout">>]
    ELSE IF p.shape = "other" THEN [kind |-> "AttributeError", text |-> <<>>]
    ELSE LET total_num ==
                 IF p.shape = "redirect" THEN <<"1">>
                 ELSE IF p.shape = "amount" THEN NoCommas(p.amount)
                 ELSE <<"0">>
         IN  [kind |-> "return", text |-> Found(total_num)]

\* ACS.py lines 23-32: nothing is caught, the count is the span's string.
ACSTotal(p) ==
    IF p.shape = "timeout" THEN [kind |-> "TimeoutError", text |-> <<>>]
    ELSE IF p.shape = "amount" THEN [kind |-> "return", text |-> NoCommas(p.amount)]
    ELSE [kind |-> "AttributeError", text |-> <<>>]

\* getTotalPaperNum() of either provider, on the page p.
getTotalPaperNum ==
    /\ data.made
    /\ total.kind = "none"
    /\ \E p \in Pages, provider \in {"PubMed", "ACS"} :
        LET out == IF provider = "PubMed" THEN PubMedTotal(p) ELSE ACSTotal(p)
        IN  total' = [provider |-> provider, page |-> p.shape,
                      kind |-> out.kind, text |-> out.text]
    /\ UNCHANGED <<args, data>>
    /\ UNCHANGED <<spider, menu>>

----------------------------------------------------------------------------
Nums == 0..MaxNum \cup {PageSize + 1}

Init == SpiderInit(0..MaxAvail) /\ MenuInit({FALSE}) /\ QueryInit({NoArgs})

Next ==
    \/ Call(Nums)
    \/ ListingPage
    \/ ListingExit
    \/ AfterPMIDs
    \/ Tick
    \/ \E i \in 1..Len(tasks) : Wake(i)
    \/ \E i \in 1..Len(tasks) : Respond(i)
    \/ \E i \in 1..Len(tasks) : PutEntry(i)
    \/ GatherReturn
    \/ GatherRaise
    \/ Get

Spec == Init /\ [][Next]_vars

\* The listing stage alone, with counts around the page boundaries.
Boundary == {n \in 0..(MaxPages * PageSize + 2) : n % PageSize \in {0, 1, 2, PageSize - 1}}

InitFetch == SpiderInit(Boundary) /\ MenuInit({FALSE}) /\ QueryInit({NoArgs})

NextFetch ==
    \/ Call(Boundary)
    \/ ListingPage
    \/ ListingExit

SpecFetch == InitFetch /\ [][NextFetch]_vars

\* The menu's download commands.
InitMenu == SpiderInit({0}) /\ MenuInit(BOOLEAN) /\ QueryInit({NoArgs})

NextMenu ==
    \/ DownloadAllCmd
    \/ downloadByDoiFile
    \/ Publish
    \/ Monitor
    \/ MonitorReturn

SpecMenu == InitMenu /\ [][NextMenu]_vars

\* The query stage: building the payload and reading the total.
InitQuery == SpiderInit({0}) /\ MenuInit({FALSE}) /\ QueryInit(Args)

NextQuery ==
    \/ parseData
    \/ getTotalPaperNum

SpecQuery == InitQuery /\ [][NextQuery]_vars

----------------------------------------------------------------------------
\* Properties.

\* Every entry ever put on the result queue: taken ones, then waiting ones.
Entries == got \o queue

\* The entries put by tasks: all but the "Not found any papers" one.
TaskEntries == SelectSeq(Entries, LAMBDA e : e # NotFoundEntry)

\* The entries put under rank r.
AtRank(r) == SelectSeq(Entries, LAMBDA e : e.idx = r)

\* Ranks 0 .. n-1 in ascending order.
Ranks(n) == [k \in 1..n |-> k - 1]

\* Every listing page requested came back and carried its identifier block.
ListedOk == \A k \in 1..Len(reqlog) : reqlog[k].resp \in {"block", "emptyblock"}

\* No listing request failed: each came back with a page.
ListingAnswered ==
    \A k \in 1..Len(reqlog) : reqlog[k].resp \in {"block", "emptyblock", "noblock"}

\* getAllPapers is over.
Ended == pc \in {"returned", "raised"}

\* C1: once getAllPapers has returned after a listing whose pages all came
\* back with their identifier blocks, the entries put for the N >= 1 listed
\* identifiers carry the ranks 0..N-1, each exactly once and each with the
\* record fetched for the identifier of that rank, and a consumer that
\* starts to drain then gets them in ascending rank order, whatever the
\* order in which the detail fetches completed.
C1_OrderedDrain ==
    (pc = "returned" /\ ListedOk /\ Len(ret) >= 1) =>
        /\ Len(Entries) = Len(ret)
        /\ \A r \in 0..(Len(ret) - 1) :
            /\ Len(AtRank(r)) = 1
            /\ AtRank(r)[1].rec = tasks[r + 1].rec
        /\ got = <<>> => Indices(queue) = Ranks(Len(ret))

\* C1's case: three detail fetches completed in exactly reversed rank order,
\* nothing was drained during the run, and getAllPapers has returned.
C1_Witness ==
    /\ pc = "returned"
    /\ ListedOk
    /\ Len(ret) >= 3
    /\ reversed
    /\ got = <<>>
    /\ Len(queue) = Len(ret)

\* C2 (as claimed), on the runs whose first listing page carried
\* identifiers: when getAllPapers has returned and every listing request
\* was answered (full page, short page or a page with no block), the
\* entries put on the result queue number min(requested, available) and no
\* two of them carry the same rank.
C2_EntriesAreMinAndDistinct ==
    (pc = "returned" /\ ListingAnswered /\ Len(reqlog) >= 1
                     /\ reqlog[1].resp = "block") =>
        /\ Len(Entries) = Min(num, avail)
        /\ \A j, k \in 1..Len(Entries) : j # k => Entries[j].idx # Entries[k].idx

\* C5 (as claimed): when the first listing page carries no identifier
\* block, getAllPapers ends by raising the NoResults TipException, without
\* entering the detail stage.
C5_NoResultsReachesCaller ==
    (Ended /\ Len(reqlog) >= 1 /\ reqlog[1].resp = "noblock") =>
        pc = "raised" /\ exc = "TipException:NoResults"

\* C7 (as claimed): a run ends either with a named batch-level condition
\* raised, or with the complete rank-ordered list of min(requested,
\* available) records; never with fewer records and nothing raised.
C7_CompleteOrSignalled ==
    Ended =>
        \/ pc = "raised" /\ exc \in {"TipException:Timeout", "TipException:NoResults"}
        \/ pc = "returned" /\
             Len(TaskEntries) >= Min(num, avail)

\* Task i has gone through the try statement of getPagesInfo.
Responded(i) == tasks[i].pc \in {"put", "done", "failed"}

\* The entries put by tasks under the rank of task i.
EntriesOf(i) == SelectSeq(TaskEntries, LAMBDA e : e.idx = i - 1)

C9_ParsingIsTotal ==
    \A i \in 1..Len(tasks) :
        /\ tasks[i].pc # "failed"
        /\ tasks[i].pc = "done" => Len(EntriesOf(i)) = 1

----------------------------------------------------------------------------
\* Properties of the listing stage (SpecFetch).

\* The first n identifiers in the provider's order.
FirstIds(n) == [k \in 1..n |-> k]

\* ceil(n / 200)
CeilPages(n) == (n + PageSize - 1) \div PageSize

RECURSIVE SumLen(_, _)
\* Number of identifiers carried by the first k listing responses.
SumLen(log, k) == IF k = 0 THEN 0 ELSE SumLen(log, k - 1) + log[k].len

\* C3: when the provider holds at least N identifiers and every listing
\* request is answered, getPMIDs(N) returns the first N identifiers in the
\* provider's order after exactly ceil(N/200) requests, for pages
\* 1 .. ceil(N/200).
C3_MinimalRequests ==
    (pc = "listed" /\ avail >= num /\ ListingAnswered) =>
        /\ ret = FirstIds(num)
        /\ listexc = "none"
        /\ Len(reqlog) = CeilPages(num)
        /\ \A k \in 1..Len(reqlog) : reqlog[k].page = k

\* C3's case: a count that needs three pages has been listed.
C3_Witness ==
    /\ pc = "listed"
    /\ num > 2 * PageSize
    /\ avail >= num
    /\ ListingAnswered
    /\ Len(reqlog) = 3
    /\ Len(ret) = num

\* C4 (as claimed), for the pages that carry at least one identifier: no
\* listing request follows a page that carried fewer than 200 identifiers.
C4_StopsAfterShortPage ==
    \A k \in 1..Len(reqlog) :
        (reqlog[k].resp = "block" /\ reqlog[k].len < PageSize) => k = Len(reqlog)

\* C6: a timeout of the request for page k is the last listing request,
\* and getPMIDs then returns (it does not raise) the identifiers of pages
\* 1 .. k-1, cut to N.
C6_TimeoutKeepsPartial ==
    \A k \in 1..Len(reqlog) :
        reqlog[k].resp = "timeout" =>
            /\ k = Len(reqlog)
            /\ pc = "listed"
            /\ listexc = "none"
            /\ ret = FirstIds(Min(num, SumLen(reqlog, k - 1)))

\* C6's case: the request for the second page timed out after a first page
\* that carried identifiers.
C6_Witness ==
    /\ pc = "listed"
    /\ Len(reqlog) = 2
    /\ reqlog[2].resp = "timeout"
    /\ Len(ret) >= 2

----------------------------------------------------------------------------
\* Properties of the menu (SpecMenu).

\* C10: while the download worker runs, the monitor queue it was handed has
\* maxsize equal to the length of the batch it was handed, so the worker,
\* which publishes once per item, always finds room, even if the monitor
\* has taken nothing.
C10_QueueSizedToBatch ==
    dl = "monitor" =>
        /\ mq_size = Len(batch)
        /\ published < Len(batch) => CanPut(mq, mq_size)

\* C10's case: the worker has published its whole batch of two or more
\* items and the monitor has taken none.
C10_Witness ==
    /\ dl = "monitor"
    /\ Len(batch) >= 2
    /\ published = Len(batch)
    /\ Len(mq) = Len(batch)
    /\ seen = 0

\* The lines of a file that start with "10.", in file order.
Accepted(lines) == SelectSeq(lines, StartsWithMarker)

\* id is the identifier of line: the line without the whitespace that ends it.
IsIdentifierOf(id, line) ==
    \E n \in 0..Len(line) :
        /\ id = SubSeq(line, 1, n)
        /\ \A k \in (n + 1)..Len(line) : line[k] \in White
        /\ n > 0 => line[n] \notin White

\* C11: the details downloadByDoiFile builds are, in file order, one per
\* line of the file that starts with "10.", each with title and doi equal
\* to the identifier of its line; the other lines add nothing.
C11_OneDetailPerIdentifier ==
    /\ Len(details) = Len(Accepted(dois))
    /\ \A k \in 1..Len(details) :
        /\ details[k].title = details[k].doi
        /\ IsIdentifierOf(details[k].doi, Accepted(dois)[k])

\* C11's case: a file with two different identifier lines, one of them
\* ending in a blank and a newline, and a garbage line between them.
C11_Witness ==
    /\ by_file
    /\ Len(dois) = 3
    /\ Len(details) = 2
    /\ ~StartsWithMarker(dois[2])
    /\ details[1].doi # details[2].doi
    /\ Len(dois[1]) = 4
    /\ dl = "monitor"
    /\ batch = details

\* C18 (as claimed): the batch a download started by downloadByDoiFile
\* hands to the worker is the list of details built from the file.
C18_BatchIsFromFile ==
    (by_file /\ dl = "monitor") => batch = details


\* The clauses the term should hold: each of keyword, "{start}:{end}[dp]" and
\* "{author}[author]" whose parameters are all non-empty, in that order.
NonEmptyClauses(a) ==
    (IF a.keyword # <<>> THEN <<a.keyword>> ELSE <<>>)
    \o (IF a.start_year # <<>> /\ a.end_year # <<>>
        THEN <<a.start_year \o <<":">> \o a.end_year \o <<"[dp]">>>>
        ELSE <<>>)
    \o (IF a.author # <<>> THEN <<a.author \o <<"[author]">>>> ELSE <<>>)

\* C12 (as claimed): for every combination of empty and non-empty keyword,
\* start_year, end_year and author (no journal), the term of the payload
\* parseData returns is the " AND "-conjunction of exactly the clauses whose
\* parameters are non-empty, in the order keyword, date range, author.
C12_TermIsNonEmptyClauses ==
    (data.made /\ args.journal = <<>>) =>
        data.term = Join(NonEmptyClauses(args), <<" AND ">>)

\* C13 (as claimed): getTotalPaperNum fails with a Timeout or NotFound
\* condition when the results page shows no match, reports 1 for the
\* single-result redirect page, and never returns a count of zero.
C13_ZeroMatchesFail ==
    /\ total.page = "noamount" => total.kind \in {"TipException", "NotFound"}
    /\ (total.provider = "PubMed" /\ total.page = "redirect") =>
           (total.kind = "return" /\ total.text = Found(<<"1">>))
    /\ total.kind = "return" => total.text \notin {Found(<<"0">>), <<"0">>}


\* C14 (as claimed): however getAllPapers finishes, by returning or by an
\* exception that gather passed on, the session of the stage has been closed
\* and removed from the spider.
C14_SessionClosedAtEnd ==
    pc \in {"returned", "raised"} => session = "deleted"

\* C15: self.data["page"] changes only in getPMIDs, no listing request is
\* issued once a detail-fetch task exists, and the tasks are created only
\* when getPMIDs is over; no step of a task touches what getPMIDs works on.
C15_CursorOwnedByListing ==
    [][/\ page' # page => pc \in {"idle", "pmids"}
       /\ reqlog' # reqlog => (pc = "pmids" /\ tasks = <<>>)
       /\ tasks' # tasks => (pc \in {"listed", "gather"} /\ UNCHANGED listing)]_vars

\* C15's case: the listing took two page requests and moved the cursor, and
\* afterwards every task of the run has fetched its page and put its entry.
C15_Witness ==
    /\ Len(reqlog) = 2
    /\ page = 2
    /\ Len(tasks) >= 2
    /\ AllDone
    /\ pc = "returned"

\* C16: a task that has issued its request has slept its rank times
\* GET_FREQUENCY since gather started the tasks, and a task of lower rank is
\* free to issue whenever one of higher rank is.
C16_StaggeredRequests ==
    \A j \in 1..Len(tasks) :
        /\ tasks[j].pc # "sleep" => now >= j - 1
        /\ \A i \in 1..j :
            (ENABLED Wake(j) /\ tasks[i].pc = "sleep") => ENABLED Wake(i)

\* C16's case, not serialized: the request of the task of rank 1 is out
\* while the request of the task of rank 0 is still in flight.
C16_Witness ==
    /\ pc = "gather"
    /\ Len(tasks) >= 2
    /\ tasks[1].pc = "request"
    /\ tasks[2].pc = "request"
    /\ now = 1


\* A step of getAllPapers or of one of its tasks: anything but the consumer.
StageStep ==
    \/ ListingPage
    \/ ListingExit
    \/ AfterPMIDs
    \/ Tick
    \/ \E i \in 1..Len(tasks) : Wake(i) \/ Respond(i) \/ PutEntry(i)
    \/ GatherReturn
    \/ GatherRaise

\* C17 (as claimed): when the caller's queue has room for the requested
\* count and nothing has been taken from it, getAllPapers is never stuck
\* before its end: some step of the stage can be taken without a get().
C17_NoStallWithoutDrain ==
    (pc \in {"pmids", "listed", "gather"} /\ got = <<>> /\ capacity >= num) =>
        ENABLED StageStep

\* C19: after a first listing page without identifier block no task is
\* ever created, the one entry put on the queue is (0, seven "Not found any
\* papers"), maxsize is 1, and getAllPapers does not end by an exception.
C19_FirstPageNoBlock ==
    (reqlog # <<>> /\ reqlog[1].resp = "noblock") =>
        /\ tasks = <<>>
        /\ Len(Entries) = 1
        /\ Entries[1].idx = 0
        /\ Entries[1].rec = [k \in 1..7 |-> "Not found any papers"]
        /\ maxsize = 1
        /\ pc \in {"listed", "gather", "returned"}

\* C19's case: getAllPapers has returned after a first page without block,
\* with the entry still waiting on the queue.
C19_Witness ==
    /\ Len(reqlog) = 1
    /\ reqlog[1].resp = "noblock"
    /\ pc = "returned"
    /\ Len(queue) = 1
    /\ session = "deleted"

====
